---- MODULE Spec2Model ----
(***************************************************************************)
(* The league document of madden_bot.py and the commands that read and     *)
(* write it.  Every command handler loads the document, computes, and      *)
(* saves it before its first await, so a handler is one atomic action on   *)
(* the persisted document.  The text sent back with ctx.send is kept in    *)
(* the variable reply.  tasks holds the handlers that run as coroutines of *)
(* the event loop; it is empty where the commands are run one at a time.   *)
(***************************************************************************)
EXTENDS Integers, Sequences, FiniteSets, TLC

VARIABLES season, playoff_mode, players, games, playoffs, reply, tasks

doc == <<season, playoff_mode, players, games, playoffs>>
vars == <<season, playoff_mode, players, games, playoffs, reply, tasks>>

(***************************************************************************)
(* Bounds of the model.                                                    *)
(***************************************************************************)
\* Distinct team names the commands carry.
MaxTeams == 4
\* Length of the game log.
MaxGames == 1
\* Scores are 0..MaxScore.
MaxScore == 1
\* Length of the playoff results.
MaxResults == 1
\* Last season number.
MaxSeason == 2
\* Teams of a document loaded from an existing file.
MaxLoaded == 7

\* Teams of a document handed to removeplayer.
MaxRoster == 3

\* Length of a game log handed to head_to_head.
MaxLog == 2

\* Commands whose handlers run as coroutines at the same time.
MaxTasks == 3

\* Team names are arbitrary strings: "a" and "A" differ only in case, and a
\* team may be registered under the text of the bracket placeholder.
NameList == <<"a", "A", "b", "Play-In Winner", "c", "d", "e", "f">>
FirstNames(k) == {NameList[i] : i \in 1..(IF k < Len(NameList) THEN k ELSE Len(NameList))}
Names == FirstNames(MaxTeams)
LoadedNames == FirstNames(MaxLoaded)
Scores == 0..MaxScore

\* Python's None; an optional value is a sequence of length 0 or 1.
None == <<>>
Some(v) == <<v>>

(***************************************************************************)
(* Strings: str.lower() and the order of the lower-cased names.            *)
(***************************************************************************)
lower(s) ==
  CASE s = "A" -> "a"
    [] s = "Play-In Winner" -> "play-in winner"
    [] OTHER -> s

\* Code-point order of the lower-cased names: "a" < "b" < ... < "play-in winner".
str_rank(s) ==
  CASE s = "a" -> 1
    [] s = "b" -> 2
    [] s = "c" -> 3
    [] s = "d" -> 4
    [] s = "e" -> 5
    [] s = "f" -> 6
    [] s = "play-in winner" -> 7

str_lt(s, t) == str_rank(s) < str_rank(t)

(***************************************************************************)
(* Records and standings                                                   *)
(***************************************************************************)
new_player(name) ==
  [name |-> name, wins |-> 0, losses |-> 0, points_for |-> 0, points_against |-> 0]

registered(ps) == {ps[i].name : i \in 1..Len(ps)}

\* The position of a registered name in the mapping (keys are unique).
index_of(ps, name) == CHOOSE i \in 1..Len(ps) : ps[i].name = name

\* win_pct as the exact fraction <<numerator, denominator>>; 0.000 is 0/1.
win_pct(wins, losses) ==
  LET total == wins + losses
  IN IF total = 0 THEN <<0, 1>> ELSE <<wins, total>>

\* Comparison of two quotients of small integers (the float division is
\* correctly rounded, so it orders them as the fractions are ordered).
pct_gt(p, q) == p[1] * q[2] > q[1] * p[2]
pct_eq(p, q) == p[1] * q[2] = q[1] * p[2]

point_diff(player) == player.points_for - player.points_against

\* Mutant: points_for is left out of the key.
key_lt_no_points_for(x, y) ==
  LET px == win_pct(x.wins, x.losses)
      py == win_pct(y.wins, y.losses)
  IN \/ pct_gt(px, py)
     \/ /\ pct_eq(px, py)
        /\ \/ point_diff(x) > point_diff(y)
           \/ /\ point_diff(x) = point_diff(y)
              /\ str_lt(lower(x.name), lower(y.name))

\* key(x) < key(y) for the tuple key of get_seeds:
\* (-win_pct, -point_diff, -points_for, name.lower()).
key_lt(x, y) ==
  LET px == win_pct(x.wins, x.losses)
      py == win_pct(y.wins, y.losses)
  IN \/ pct_gt(px, py)
     \/ /\ pct_eq(px, py)
        /\ \/ point_diff(x) > point_diff(y)
           \/ /\ point_diff(x) = point_diff(y)
              /\ \/ x.points_for > y.points_for
                 \/ /\ x.points_for = y.points_for
                    /\ str_lt(lower(x.name), lower(y.name))

\* Python's sorted(): a stable sort.  Each item goes behind every earlier
\* item whose key is not greater than its own.
RECURSIVE sorted(_)
sorted(items) ==
  IF items = <<>> THEN <<>>
  ELSE LET n == Len(items)
           rest == sorted(SubSeq(items, 1, n - 1))
           x == items[n]
           k == Cardinality({i \in 1..Len(rest) : ~key_lt(x, rest[i])})
       IN SubSeq(rest, 1, k) \o <<x>> \o SubSeq(rest, k + 1, Len(rest))

get_seeds(ps) == sorted(ps)

\* The ranked team names.
seed_names(ps) ==
  LET seeds == get_seeds(ps)
  IN [i \in 1..Len(seeds) |-> seeds[i].name]

\* get_seed_map: team -> 1-based rank.
get_seed_map(ps) ==
  LET teams == seed_names(ps)
  IN [t \in registered(ps) |-> CHOOSE i \in 1..Len(teams) : teams[i] = t]

(***************************************************************************)
(* The playoff bracket                                                     *)
(***************************************************************************)
Placeholder == "Play-In Winner"

\* What a call that raises returns in the model.
IndexError == [exc |-> "IndexError"]
KeyError == [exc |-> "KeyError"]

\* Python slices: s[:k], s[k:], s[:-k].
take(s, k) == SubSeq(s, 1, IF k < Len(s) THEN k ELSE Len(s))
drop(s, k) == SubSeq(s, k + 1, Len(s))
drop_last(s, k) == SubSeq(s, 1, Len(s) - k)

\* Mutant: the loop stops while two remain.
RECURSIVE pair_off_short(_)
pair_off_short(remaining) ==
  IF Len(remaining) > 2
  THEN <<<<remaining[1], remaining[Len(remaining)]>>>>
         \o pair_off_short(SubSeq(remaining, 2, Len(remaining) - 1))
  ELSE <<>>

\* Mutant: neighbours are paired (pop(0) twice).
RECURSIVE pair_off_adjacent(_)
pair_off_adjacent(remaining) ==
  IF Len(remaining) >= 2
  THEN <<<<remaining[1], remaining[2]>>>> \o pair_off_adjacent(SubSeq(remaining, 3, Len(remaining)))
  ELSE <<>>

\* The while loop: pop(0) and pop(-1) until fewer than two remain.
RECURSIVE pair_off(_)
pair_off(remaining) ==
  IF Len(remaining) >= 2
  THEN <<<<remaining[1], remaining[Len(remaining)]>>>>
         \o pair_off(SubSeq(remaining, 2, Len(remaining) - 1))
  ELSE <<>>

\* n % 2 == 1: the play-in branch is taken.
has_play_in(n) == n % 2 = 1

\* remaining[-2] and remaining[-1] exist.
last_two_exist(remaining) == Len(remaining) >= 2

\* generate_playoff_bracket: the bracket, or IndexError when remaining[-2]
\* does not exist.
generate_playoff_bracket(ps) ==
  LET teams == seed_names(ps)
      n == Len(teams)
      byes == take(teams, 2)
      remaining == drop(teams, 2)
  IN IF has_play_in(n)
     THEN IF ~last_two_exist(remaining)
          THEN IndexError
          ELSE [play_in |-> <<remaining[Len(remaining) - 1], remaining[Len(remaining)]>>,
                byes |-> byes,
                round1 |-> pair_off(Append(drop_last(remaining, 2), Placeholder))]
     ELSE [play_in |-> None, byes |-> byes, round1 |-> pair_off(remaining)]

(***************************************************************************)
(* load_data: the document of a missing file.                              *)
(***************************************************************************)
load_data_default ==
  /\ season = 1
  /\ playoff_mode = FALSE
  /\ players = <<>>
  /\ games = <<>>
  /\ playoffs = [bracket |-> None, results |-> <<>>]

(***************************************************************************)
(* Replies, by kind: "ok" is the message of a command that went through,   *)
(* "error" the message of a handler that refused and returned.  An         *)
(* exception that leaves the handler is answered by no message; reply then *)
(* names the exception.                                                    *)
(***************************************************************************)
ExceptionReplies == {"IndexError", "KeyError"}
Replies == {"ready", "ok", "error"} \cup ExceptionReplies

(***************************************************************************)
(* addplayer                                                               *)
(***************************************************************************)
\* Mutant: registering an existing name starts its record again.
addplayer_overwrite(name) ==
  IF name \in registered(players)
  THEN /\ reply' = "error"
       /\ players' = [players EXCEPT ![index_of(players, name)] = new_player(name)]
       /\ UNCHANGED <<season, playoff_mode, games, playoffs>>
  ELSE /\ players' = Append(players, new_player(name))
       /\ reply' = "ok"
       /\ UNCHANGED <<season, playoff_mode, games, playoffs>>

addplayer(name) ==
  IF name \in registered(players)
  THEN /\ reply' = "error"   \* already exists
       /\ UNCHANGED doc
  ELSE /\ players' = Append(players, new_player(name))
       /\ reply' = "ok"   \* Added player
       /\ UNCHANGED <<season, playoff_mode, games, playoffs>>

(***************************************************************************)
(* game: regular season                                                    *)
(***************************************************************************)
add_points(ps, name, pf, pa) ==
  LET i == index_of(ps, name)
  IN [ps EXCEPT ![i].points_for = @ + pf, ![i].points_against = @ + pa]

add_win(ps, name) == [ps EXCEPT ![index_of(ps, name)].wins = @ + 1]
add_loss(ps, name) == [ps EXCEPT ![index_of(ps, name)].losses = @ + 1]

\* s1 > s2: the first-named team takes the win.
first_wins(s1, s2) == s1 > s2

\* Mutant: a game with equal scores credits no win and no loss.
record_game_drawn(ps, p1, s1, p2, s2) ==
  LET d1 == add_points(ps, p1, s1, s2)
      d2 == add_points(d1, p2, s2, s1)
  IN IF s1 > s2
     THEN add_loss(add_win(d2, p1), p2)
     ELSE IF s2 > s1
     THEN add_loss(add_win(d2, p2), p1)
     ELSE d2

\* Lines 310-320, one statement after the other (p1 may be p2).
record_game(ps, p1, s1, p2, s2) ==
  LET d1 == add_points(ps, p1, s1, s2)
      d2 == add_points(d1, p2, s2, s1)
  IN IF first_wins(s1, s2)
     THEN add_loss(add_win(d2, p1), p2)
     ELSE add_loss(add_win(d2, p2), p1)

(***************************************************************************)
(* handle_playoff_game                                                     *)
(***************************************************************************)
\* valid_games: the play-in pair, if any, then the round-1 pairs.
valid_games(bracket) ==
  (IF bracket.play_in # None THEN <<bracket.play_in>> ELSE <<>>) \o bracket.round1

\* Mutant: the reported pair is compared in order.
valid_matchup_ordered(bracket, p1, p2) ==
  LET vg == valid_games(bracket)
  IN \E i \in 1..Len(vg) : <<p1, p2>> = vg[i]

\* any({p1, p2} == {a, b} for a, b in valid_games)
valid_matchup(bracket, p1, p2) ==
  LET vg == valid_games(bracket)
  IN \E i \in 1..Len(vg) : {p1, p2} = {vg[i][1], vg[i][2]}

\* Mutant: equal scores go to the first-named team.
playoff_winner_first(p1, s1, p2, s2) == IF s1 >= s2 THEN p1 ELSE p2

\* winner = p1 if s1 > s2 else p2
playoff_winner(p1, s1, p2, s2) == IF s1 > s2 THEN p1 ELSE p2

\* Mutant: an accepted playoff game is also counted in the team records.
handle_playoff_game_counted(p1, s1, p2, s2) ==
  IF playoffs.bracket = None
  THEN /\ reply' = "error"
       /\ UNCHANGED doc
  ELSE IF ~valid_matchup(playoffs.bracket[1], p1, p2)
  THEN /\ reply' = "error"
       /\ UNCHANGED doc
  ELSE /\ Len(playoffs.results) < MaxResults
       /\ playoffs' = [playoffs EXCEPT !.results =
            Append(@, [p1 |-> p1, s1 |-> s1, p2 |-> p2, s2 |-> s2,
                       winner |-> playoff_winner(p1, s1, p2, s2)])]
       /\ players' = IF {p1, p2} \subseteq registered(players)
                     THEN record_game(players, p1, s1, p2, s2) ELSE players
       /\ reply' = "ok"
       /\ UNCHANGED <<season, playoff_mode, games>>

handle_playoff_game(p1, s1, p2, s2) ==
  IF playoffs.bracket = None
  THEN /\ reply' = "error"   \* Playoff bracket not initialized
       /\ UNCHANGED doc
  ELSE IF ~valid_matchup(playoffs.bracket[1], p1, p2)
  THEN /\ reply' = "error"   \* Invalid playoff matchup
       /\ UNCHANGED doc
  ELSE /\ Len(playoffs.results) < MaxResults
       /\ playoffs' = [playoffs EXCEPT !.results =
            Append(@, [p1 |-> p1, s1 |-> s1, p2 |-> p2, s2 |-> s2,
                       winner |-> playoff_winner(p1, s1, p2, s2)])]
       /\ reply' = "ok"   \* Playoff Final
       /\ UNCHANGED <<season, playoff_mode, players, games>>

game(p1, s1, p2, s2) ==
  IF playoff_mode
  THEN handle_playoff_game(p1, s1, p2, s2)
  ELSE IF p1 \notin registered(players) \/ p2 \notin registered(players)
  THEN /\ reply' = "error"   \* Both players must exist
       /\ UNCHANGED doc
  ELSE /\ Len(games) < MaxGames
       /\ players' = record_game(players, p1, s1, p2, s2)
       /\ games' = Append(games, [p1 |-> p1, s1 |-> s1, p2 |-> p2, s2 |-> s2])
       /\ reply' = "ok"   \* Final
       /\ UNCHANGED <<season, playoff_mode, playoffs>>

(***************************************************************************)
(* resetseason                                                             *)
(***************************************************************************)
\* Mutant: the season is also reset during the playoffs.
resetseason_in_playoffs(admin) ==
  IF ~admin
  THEN /\ reply' = "error"
       /\ UNCHANGED doc
  ELSE /\ season < MaxSeason
       /\ players' = [i \in 1..Len(players) |-> new_player(players[i].name)]
       /\ games' = <<>>
       /\ season' = season + 1
       /\ reply' = "ok"
       /\ UNCHANGED <<playoff_mode, playoffs>>

resetseason(admin) ==
  IF ~admin
  THEN /\ reply' = "error"   \* Only admins can reset the season
       /\ UNCHANGED doc
  ELSE IF playoff_mode
  THEN /\ reply' = "error"   \* Cannot reset season during playoffs
       /\ UNCHANGED doc
  ELSE /\ season < MaxSeason
       /\ players' = [i \in 1..Len(players) |-> new_player(players[i].name)]
       /\ games' = <<>>
       /\ season' = season + 1
       /\ reply' = "ok"   \* Season reset
       /\ UNCHANGED <<playoff_mode, playoffs>>

(***************************************************************************)
(* playoffmode                                                             *)
(***************************************************************************)
\* Mutant: playoff mode can be started again.
playoffmode_again(admin) ==
  IF ~admin
  THEN /\ reply' = "error"
       /\ UNCHANGED doc
  ELSE IF generate_playoff_bracket(players) = IndexError
  THEN /\ reply' = "IndexError"
       /\ UNCHANGED doc
  ELSE /\ playoff_mode' = TRUE
       /\ playoffs' = [bracket |-> Some(generate_playoff_bracket(players)),
                       results |-> <<>>]
       /\ reply' = "ok"
       /\ UNCHANGED <<season, players, games>>

\* Mutant: the flag is saved before the bracket is generated.
playoffmode_flag_first(admin) ==
  IF ~admin
  THEN /\ reply' = "error"
       /\ UNCHANGED doc
  ELSE IF playoff_mode
  THEN /\ reply' = "error"
       /\ UNCHANGED doc
  ELSE IF generate_playoff_bracket(players) = IndexError
  THEN /\ reply' = "IndexError"
       /\ playoff_mode' = TRUE
       /\ UNCHANGED <<season, players, games, playoffs>>
  ELSE /\ playoff_mode' = TRUE
       /\ playoffs' = [bracket |-> Some(generate_playoff_bracket(players)),
                       results |-> <<>>]
       /\ reply' = "ok"
       /\ UNCHANGED <<season, players, games>>

playoffmode(admin) ==
  IF ~admin
  THEN /\ reply' = "error"   \* Only admins can start playoff mode
       /\ UNCHANGED doc
  ELSE IF playoff_mode
  THEN /\ reply' = "error"   \* Playoffs already started
       /\ UNCHANGED doc
  ELSE IF generate_playoff_bracket(players) = IndexError
  THEN \* the exception leaves the handler before save_data
       /\ reply' = "IndexError"
       /\ UNCHANGED doc
  ELSE /\ playoff_mode' = TRUE
       /\ playoffs' = [bracket |-> Some(generate_playoff_bracket(players)),
                       results |-> <<>>]
       /\ reply' = "ok"   \* PLAYOFF MODE ACTIVATED
       /\ UNCHANGED <<season, players, games>>

(***************************************************************************)
(* removeplayer                                                            *)
(***************************************************************************)
has_stats(player) ==
  \/ player.wins # 0
  \/ player.losses # 0
  \/ player.points_for # 0
  \/ player.points_against # 0

in_history(gs, name) == \E i \in 1..Len(gs) : gs[i].p1 = name \/ gs[i].p2 = name

\* del data["players"][name]: the other entries keep their order.
del_player(ps, name) ==
  LET i == index_of(ps, name)
  IN SubSeq(ps, 1, i - 1) \o SubSeq(ps, i + 1, Len(ps))

\* Mutant: the game history is not looked at.
removeplayer_no_history(name) ==
  IF name \notin registered(players)
  THEN /\ reply' = "error"
       /\ UNCHANGED doc
  ELSE IF has_stats(players[index_of(players, name)])
  THEN /\ reply' = "error"
       /\ UNCHANGED doc
  ELSE /\ players' = del_player(players, name)
       /\ reply' = "ok"
       /\ UNCHANGED <<season, playoff_mode, games, playoffs>>

removeplayer(name) ==
  IF name \notin registered(players)
  THEN /\ reply' = "error"   \* does not exist
       /\ UNCHANGED doc
  ELSE IF has_stats(players[index_of(players, name)])
  THEN /\ reply' = "error"   \* they have recorded stats
       /\ UNCHANGED doc
  ELSE IF in_history(games, name)
  THEN /\ reply' = "error"   \* they appear in game history
       /\ UNCHANGED doc
  ELSE /\ players' = del_player(players, name)
       /\ reply' = "ok"   \* has been removed
       /\ UNCHANGED <<season, playoff_mode, games, playoffs>>

(***************************************************************************)
(* currentplayoff and render_ascii_bracket                                 *)
(***************************************************************************)
\* The teams fmt() is called on, in the order of the calls.
rendered_teams(bracket) ==
  LET flat(pairs) == [k \in 1..(2 * Len(pairs)) |-> pairs[(k + 1) \div 2][2 - (k % 2)]]
  IN bracket.play_in \o flat(bracket.round1)

\* The first exception render_ascii_bracket raises, or None.
render_exception(bracket, seed_map) ==
  LET ts == rendered_teams(bracket)
      missing(t) == t # Placeholder /\ t \notin DOMAIN seed_map
  IN IF \E k \in 1..Len(ts) : missing(ts[k]) THEN KeyError
     ELSE IF Len(bracket.byes) < 1 THEN IndexError
     ELSE IF missing(bracket.byes[1]) THEN KeyError
     ELSE IF Len(bracket.byes) < 2 THEN IndexError
     ELSE IF missing(bracket.byes[2]) THEN KeyError
     ELSE None

currentplayoff ==
  /\ UNCHANGED doc
  /\ IF Len(players) < 4
     THEN reply' = "error"
     ELSE LET bracket == IF playoffs.bracket # None THEN playoffs.bracket[1]
                         ELSE generate_playoff_bracket(players)
              raised == render_exception(bracket, get_seed_map(players))
          IN reply' = IF raised = None THEN "ok" ELSE raised.exc

(***************************************************************************)
(* The bot: one command at a time, from the document of a missing file.    *)
(***************************************************************************)
Init ==
  /\ load_data_default
  /\ reply = "ready"
  /\ tasks = <<>>

Next ==
  \/ \E name \in Names : addplayer(name) /\ UNCHANGED tasks
  \/ \E p1 \in Names, p2 \in Names, s1 \in Scores, s2 \in Scores :
       game(p1, s1, p2, s2) /\ UNCHANGED tasks
  \/ \E admin \in BOOLEAN : resetseason(admin) /\ UNCHANGED tasks
  \/ \E admin \in BOOLEAN : playoffmode(admin) /\ UNCHANGED tasks
  \/ \E name \in Names : removeplayer(name) /\ UNCHANGED tasks
  \/ currentplayoff /\ UNCHANGED tasks

Spec == Init /\ [][Next]_vars

(***************************************************************************)
(* load_data of an existing file.  A file written before the "playoffs"    *)
(* key existed gets {"bracket": None, "results": []} from setdefault, also *)
(* when its playoff_mode is already true.                                  *)
(***************************************************************************)
load_data_legacy ==
  /\ season = 1
  /\ playoff_mode = TRUE
  /\ players = <<>>
  /\ games = <<>>
  /\ playoffs = [bracket |-> None, results |-> <<>>]

InitLegacy ==
  /\ load_data_default \/ load_data_legacy
  /\ reply = "ready"
  /\ tasks = <<>>

SpecLegacy == InitLegacy /\ [][Next]_vars

(***************************************************************************)
(* The postseason: the document of a finished regular season is loaded,    *)
(* playoff mode is started, playoff games are reported and the bracket is  *)
(* shown.  The loaded season: the teams were registered in some order and  *)
(* the teams at positions 2i-1 and 2i of that order have met at most once. *)
(***************************************************************************)
\* The order of registration, or its reverse.
BaseOrder == <<"d", "a", "Play-In Winner", "A", "f", "b", "e", "c">>

RECURSIVE reverse(_)
reverse(s) == IF s = <<>> THEN <<>> ELSE Append(reverse(Tail(s)), Head(s))

restrict(s, S) == SelectSeq(s, LAMBDA x : x \in S)

\* A meeting that was not played, or its two scores: the first-named team
\* scored MaxScore and won, or the second-named team drew level and won.
Outcomes == {None} \cup {<<MaxScore, s2>> : s2 \in Scores}

RECURSIVE season_log(_, _, _)
season_log(order, outcome, i) ==
  IF i > Len(order) \div 2 THEN <<>>
  ELSE (IF outcome[i] = None THEN <<>>
        ELSE <<[p1 |-> order[2 * i - 1], s1 |-> outcome[i][1],
                p2 |-> order[2 * i], s2 |-> outcome[i][2]]>>)
       \o season_log(order, outcome, i + 1)

\* The records after the games of a log, each recorded by game().
RECURSIVE play_all(_, _)
play_all(ps, log) ==
  IF log = <<>> THEN ps
  ELSE play_all(record_game(ps, log[1].p1, log[1].s1, log[1].p2, log[1].s2), Tail(log))

InitPostseason ==
  \E S \in SUBSET LoadedNames : \E rev \in BOOLEAN :
    LET base == restrict(BaseOrder, S)
        order == IF rev THEN reverse(base) ELSE base
    IN \E outcome \in [1..(Len(order) \div 2) -> Outcomes] :
         LET log == season_log(order, outcome, 1)
         IN /\ season = 1
            /\ playoff_mode = FALSE
            /\ players = play_all([i \in 1..Len(order) |-> new_player(order[i])], log)
            /\ games = log
            /\ playoffs = [bracket |-> None, results |-> <<>>]
            /\ reply = "ready"
            /\ tasks = <<>>

NextPostseason ==
  \/ \E admin \in BOOLEAN : playoffmode(admin) /\ UNCHANGED tasks
  \/ /\ playoff_mode
     /\ \E p1 \in LoadedNames, p2 \in LoadedNames, s1 \in Scores, s2 \in Scores :
          game(p1, s1, p2, s2)
     /\ UNCHANGED tasks
  \/ currentplayoff /\ UNCHANGED tasks

SpecPostseason == InitPostseason /\ [][NextPostseason]_vars

(***************************************************************************)
(* Properties of the bracket and of the playoff reports                    *)
(***************************************************************************)
\* The bracket playoffmode has stored.
stored == playoffs.bracket[1]

\* The members of a sequence of pairs, pair after pair.
flatten(pairs) ==
  [k \in 1..(2 * Len(pairs)) |-> pairs[(k + 1) \div 2][IF k % 2 = 1 THEN 1 ELSE 2]]

\* How often x occurs in a sequence.
count(x, s) == Cardinality({i \in 1..Len(s) : s[i] = x})

\* The unordered pair {p1, p2} is the play-in pair or a round-1 pair of b.
is_bracket_pair(b, p1, p2) ==
  \/ /\ b.play_in # None
     /\ {p1, p2} = {b.play_in[1], b.play_in[2]}
  \/ \E i \in 1..Len(b.round1) : {p1, p2} = {b.round1[i][1], b.round1[i][2]}

C2_OnePlaceholder ==
  (playoffs.bracket # None /\ Len(players) % 2 = 1 /\ Len(players) >= 5) =>
    /\ stored.play_in # None
    /\ count(Placeholder, stored.byes \o stored.play_in \o flatten(stored.round1)) = 1
    /\ Cardinality({i \in 1..Len(stored.round1) :
                      Placeholder \in {stored.round1[i][1], stored.round1[i][2]}}) = 1

\* C3: for an even number n of teams the stored bracket has no play-in
\* pair, and each of the n-2 teams ranked below the byes is once in round 1,
\* and no bye team is in round 1.
C3_EvenBracket ==
  (playoffs.bracket # None /\ Len(players) % 2 = 0) =>
    LET teams == seed_names(players)
        r1 == flatten(stored.round1)
    IN /\ stored.play_in = None
       /\ \A i \in 3..Len(teams) : count(teams[i], r1) = 1
       /\ \A i \in 1..Len(stored.byes) : count(stored.byes[i], r1) = 0
       /\ Len(r1) = (IF Len(teams) >= 2 THEN Len(teams) - 2 ELSE 0)

C3_Witness ==
  /\ playoffs.bracket # None
  /\ Len(players) = 6
  /\ Len(stored.round1) = 2
  /\ reply = "ok"

\* C4: for teams ranked t1..tn, n >= 4, the byes are <<t1, t2>>; for odd n
\* the play-in pair is <<t(n-1), tn>> and the placeholder is the last of the
\* remaining list; the k-th round-1 pair is the k-th of the remaining list
\* with the k-th from its end.
expected_remaining(t) ==
  LET n == Len(t)
  IN IF n % 2 = 1
     THEN [i \in 1..(n - 3) |-> IF i <= n - 4 THEN t[i + 2] ELSE Placeholder]
     ELSE [i \in 1..(n - 2) |-> t[i + 2]]

C4_SeededBracket ==
  (playoffs.bracket # None /\ Len(players) >= 4) =>
    LET t == seed_names(players)
        n == Len(t)
        rem == expected_remaining(t)
    IN /\ stored.byes = <<t[1], t[2]>>
       /\ stored.play_in = (IF n % 2 = 1 THEN <<t[n - 1], t[n]>> ELSE None)
       /\ stored.round1 = [k \in 1..(Len(rem) \div 2) |-> <<rem[k], rem[Len(rem) + 1 - k]>>]
       /\ (n = 4 => stored = [play_in |-> None, byes |-> <<t[1], t[2]>>,
                               round1 |-> <<<<t[3], t[4]>>>>])
       /\ (n = 5 => stored = [play_in |-> <<t[4], t[5]>>, byes |-> <<t[1], t[2]>>,
                               round1 |-> <<<<t[3], Placeholder>>>>])

C4_Witness ==
  /\ playoffs.bracket # None
  /\ Len(players) = 7
  /\ stored.play_in # None
  /\ Len(stored.round1) = 2
  /\ stored.round1[1][2] = Placeholder
  /\ reply = "ok"

\* C5: with fewer than 4 teams the start of playoff mode ends without an
\* exception.
C5_StartNeverRaises ==
  Len(players) < 4 => reply \notin ExceptionReplies

(***************************************************************************)
(* Properties of the standings                                             *)
(***************************************************************************)
\* Games played, 1 for a team without games (its percentage is 0/1).
played_or_one(x) == IF x.wins + x.losses = 0 THEN 1 ELSE x.wins + x.losses

higher_pct(x, y) == x.wins * played_or_one(y) > y.wins * played_or_one(x)
same_pct(x, y) == x.wins * played_or_one(y) = y.wins * played_or_one(x)
diff_of(x) == x.points_for - x.points_against

\* x may stand before y under the 4-key comparator.
ranked_before(x, y) ==
  \/ higher_pct(x, y)
  \/ same_pct(x, y) /\ diff_of(x) > diff_of(y)
  \/ same_pct(x, y) /\ diff_of(x) = diff_of(y) /\ x.points_for > y.points_for
  \/ /\ same_pct(x, y)
     /\ diff_of(x) = diff_of(y)
     /\ x.points_for = y.points_for
     /\ str_rank(lower(x.name)) <= str_rank(lower(y.name))

\* C6: get_seeds returns every team exactly once, and any team standing
\* before another is ranked before it by win percentage, then point
\* differential, then points_for, then case-insensitive name.
C6_SeedsRanked ==
  LET seeds == get_seeds(players)
  IN /\ Len(seeds) = Len(players)
     /\ \A i \in 1..Len(players) : count(players[i], seeds) = 1
     /\ \A i \in 1..Len(seeds) : \A j \in (i + 1)..Len(seeds) :
          ranked_before(seeds[i], seeds[j])

\* Playoff mode was started on standings with a team without games, two
\* teams level on all three numbers, and two teams parted by points_for only.
C6_Witness ==
  /\ playoffs.bracket # None
  /\ reply = "ok"
  /\ Len(players) >= 5
  /\ \E i \in 1..Len(players) : players[i].wins + players[i].losses = 0
  /\ \E i \in 1..Len(players) : players[i].wins + players[i].losses > 0
  /\ \E i, j \in 1..Len(players) :
       /\ same_pct(players[i], players[j])
       /\ diff_of(players[i]) = diff_of(players[j])
       /\ players[i].points_for > players[j].points_for
       /\ str_rank(lower(players[i].name)) > str_rank(lower(players[j].name))
  /\ stored.byes = <<get_seeds(players)[1].name, get_seeds(players)[2].name>>

\* C7: the ranked order does not depend on the order of registration: the
\* mapping and the same entries in reverse order are ranked alike.
C7_OrderIndependent ==
  seed_names(reverse(players)) = seed_names(players)

(***************************************************************************)
(* Properties of the commands                                              *)
(***************************************************************************)
\* C8 as stated: the recorded winner has the strictly higher score, and on
\* equal scores it is p1.
C8_TieToFirst ==
  \A i \in 1..Len(playoffs.results) :
    LET r == playoffs.results[i]
    IN /\ r.s1 > r.s2 => r.winner = r.p1
       /\ r.s2 > r.s1 => r.winner = r.p2
       /\ r.s1 = r.s2 => r.winner = r.p1

\* C8 amended: the recorded winner has the strictly higher score, and on
\* equal scores it is p2, the second-named team.
C8_TieToSecond ==
  \A i \in 1..Len(playoffs.results) :
    LET r == playoffs.results[i]
    IN /\ r.s1 > r.s2 => r.winner = r.p1
       /\ r.s2 > r.s1 => r.winner = r.p2
       /\ r.s1 = r.s2 => r.winner = r.p2

C8_Witness ==
  /\ reply = "ok"
  /\ \E i \in 1..Len(playoffs.results) :
       /\ playoffs.results[i].s1 = playoffs.results[i].s2
       /\ playoffs.results[i].p1 # playoffs.results[i].p2
       /\ playoffs.results[i].winner = playoffs.results[i].p2

\* The step is a run of the game command.
game_step == \E p1 \in Names, p2 \in Names, s1 \in Scores, s2 \in Scores : game(p1, s1, p2, s2)

\* C9: in playoff mode no run of the game command changes a team record
\* or the game log; outside playoff mode no run of the game command changes
\* the bracket or the playoff results.
C9_RoutesKeepOtherSide ==
  [][/\ (playoff_mode /\ (players' # players \/ games' # games)) => ~game_step
     /\ (~playoff_mode /\ playoffs' # playoffs) => ~game_step]_vars

\* A playoff game was accepted after a regular-season game had been recorded.
C9_Witness ==
  /\ playoff_mode
  /\ reply = "ok"
  /\ games # <<>>
  /\ playoffs.results # <<>>
  /\ \E i \in 1..Len(players) : has_stats(players[i])

\* A run of a command in one of the cases C10 names.
duplicate_team_step ==
  \E name \in registered(players) : addplayer(name)

unknown_team_step ==
  /\ ~playoff_mode
  /\ \E p1 \in Names, p2 \in Names, s1 \in Scores, s2 \in Scores :
       /\ p1 \notin registered(players) \/ p2 \notin registered(players)
       /\ game(p1, s1, p2, s2)

invalid_matchup_step ==
  /\ playoff_mode
  /\ playoffs.bracket # None
  /\ \E p1 \in Names, p2 \in Names, s1 \in Scores, s2 \in Scores :
       /\ ~is_bracket_pair(stored, p1, p2)
       /\ game(p1, s1, p2, s2)

no_bracket_step ==
  /\ playoff_mode
  /\ playoffs.bracket = None
  /\ \E p1 \in Names, p2 \in Names, s1 \in Scores, s2 \in Scores : game(p1, s1, p2, s2)

blocked_removal_step ==
  \E name \in registered(players) :
    /\ has_stats(players[index_of(players, name)]) \/ in_history(games, name)
    /\ removeplayer(name)

blocked_reset_step == playoff_mode /\ \E admin \in BOOLEAN : resetseason(admin)

repeated_start_step == playoff_mode /\ \E admin \in BOOLEAN : playoffmode(admin)

\* C10: a command that ends in an error leaves season, playoff_mode,
\* players, games and playoffs as they were: no step that changes the
\* document is answered by an error message, and none is a run of a command
\* in one of the named cases (existing name registered, game with a team
\* that is not registered, invalid playoff matchup, playoff game without a
\* bracket, blocked removal, blocked reset, repeated start of playoff mode).
C10_ErrorsChangeNothing ==
  [][doc' # doc =>
       /\ reply' # "error"
       /\ ~duplicate_team_step
       /\ ~unknown_team_step
       /\ ~invalid_matchup_step
       /\ ~no_bracket_step
       /\ ~blocked_removal_step
       /\ ~blocked_reset_step
       /\ ~repeated_start_step]_vars

\* An error was answered in playoff mode without a bracket, with a team
\* registered.
C10_Witness ==
  /\ reply = "error"
  /\ playoff_mode
  /\ playoffs.bracket = None
  /\ players # <<>>

(***************************************************************************)
(* removeplayer on the document of an existing file.  load_data returns    *)
(* whatever the file holds: the team records and the game log are read     *)
(* independently of each other, so a team of the log may have a record of  *)
(* zeros.  A loaded record has at most one count that is not zero.         *)
(***************************************************************************)
RosterNames == FirstNames(MaxRoster)

LoadedRecords(name) ==
  {r \in [name : {name}, wins : 0..1, losses : 0..1,
          points_for : 0..1, points_against : 0..1] :
     r.wins + r.losses + r.points_for + r.points_against <= 1}

LoadedLogs ==
  {<<>>} \cup {<<g>> : g \in [p1 : RosterNames, s1 : Scores, p2 : RosterNames, s2 : Scores]}

InitRemoval ==
  \E S \in SUBSET RosterNames :
    LET order == restrict(NameList, S)
    IN /\ season = 1
       /\ playoff_mode = FALSE
       /\ \E rec \in [S -> UNION {LoadedRecords(n) : n \in S}] :
            /\ \A n \in S : rec[n].name = n
            /\ players = [i \in 1..Len(order) |-> rec[order[i]]]
       /\ games \in LoadedLogs
       /\ playoffs = [bracket |-> None, results |-> <<>>]
       /\ reply = "ready"
       /\ tasks = <<>>

NextRemoval == \E name \in RosterNames : removeplayer(name) /\ UNCHANGED tasks

SpecRemoval == InitRemoval /\ [][NextRemoval]_vars

(***************************************************************************)
(* Properties of removeplayer                                              *)
(***************************************************************************)
\* The team is registered, its four counts are zero and no game record
\* names it.
unused_team(name) ==
  /\ \E i \in 1..Len(players) :
       /\ players[i].name = name
       /\ players[i].wins = 0 /\ players[i].losses = 0
       /\ players[i].points_for = 0 /\ players[i].points_against = 0
  /\ \A i \in 1..Len(games) : games[i].p1 # name /\ games[i].p2 # name

\* The team named in a game record.
in_game_record(name) == \E i \in 1..Len(games) : name \in {games[i].p1, games[i].p2}

\* C11: a run of removeplayer deletes the named team exactly when the team
\* is registered, its wins, losses, points_for and points_against are zero
\* and no game record names it as p1 or p2; a team named in a game record
\* stays, also with a record of zeros; the records of the other teams keep
\* their values and their order, and season, playoff_mode, the game log and
\* the playoffs are as before.
C11_RemovesOnlyUnusedTeam ==
  [][\A name \in RosterNames : removeplayer(name) =>
       /\ (name \in registered(players) /\ name \notin registered(players'))
            <=> unused_team(name)
       /\ in_game_record(name) => players' = players
       /\ players' = SelectSeq(players, LAMBDA r : r.name \in registered(players'))
       /\ registered(players) \ registered(players') \subseteq {name}
       /\ <<season, playoff_mode, games, playoffs>>' =
            <<season, playoff_mode, games, playoffs>>]_vars

\* A team was removed while a team of the game log with a record of zeros
\* and a team with counts stayed registered.
C11_Witness ==
  /\ reply = "ok"
  /\ games # <<>>
  /\ \E i \in 1..Len(players) :
       /\ in_game_record(players[i].name)
       /\ players[i] = new_player(players[i].name)
  /\ \E i \in 1..Len(players) : players[i].wins = 1

(***************************************************************************)
(* Properties of resetseason                                               *)
(***************************************************************************)
\* The step is a run of the resetseason command.
resetseason_step == \E admin \in BOOLEAN : resetseason(admin)

\* C12: a run of resetseason in playoff mode is refused and changes nothing;
\* season never decreases, and a step that changes season is a run of
\* resetseason outside playoff mode that adds exactly 1 to season, leaves
\* every team record with wins, losses, points_for and points_against 0,
\* empties the game log and keeps the registered teams (and their order),
\* playoff_mode and the playoffs.
C12_ResetOnlyOutsidePlayoffs ==
  [][/\ season' >= season
     /\ (playoff_mode /\ resetseason_step) => (doc' = doc /\ reply' = "error")
     /\ season' # season =>
          /\ resetseason_step
          /\ ~playoff_mode
          /\ season' = season + 1
          /\ games' = <<>>
          /\ Len(players') = Len(players)
          /\ \A i \in 1..Len(players) :
               /\ players'[i].name = players[i].name
               /\ players'[i].wins = 0 /\ players'[i].losses = 0
               /\ players'[i].points_for = 0 /\ players'[i].points_against = 0
          /\ playoff_mode' = playoff_mode
          /\ playoffs' = playoffs]_vars

\* The season was reset with two teams registered, and the playoffs of the
\* new season have started.
C12_Witness ==
  /\ season = 2
  /\ Len(players) >= 2
  /\ games = <<>>
  /\ \A i \in 1..Len(players) : players[i] = new_player(players[i].name)
  /\ playoff_mode
  /\ reply = "error"

(***************************************************************************)
(* head_to_head: (a_wins, b_wins, ties, a_pf, a_pa, played) of two teams,  *)
(* counted over the game log.                                              *)
(***************************************************************************)
\* One pass of the loop body over the record g.
head_to_head_count(acc, g, a, b) ==
  IF {g.p1, g.p2} # {a, b} THEN acc
  ELSE IF g.p1 = a /\ g.p2 = b
  THEN <<acc[1] + (IF g.s1 > g.s2 THEN 1 ELSE 0),
         acc[2] + (IF g.s1 > g.s2 THEN 0 ELSE IF g.s2 > g.s1 THEN 1 ELSE 0),
         acc[3] + (IF g.s1 > g.s2 \/ g.s2 > g.s1 THEN 0 ELSE 1),
         acc[4] + g.s1,
         acc[5] + g.s2,
         acc[6] + 1>>
  ELSE <<acc[1] + (IF g.s2 > g.s1 THEN 1 ELSE 0),
         acc[2] + (IF g.s2 > g.s1 THEN 0 ELSE IF g.s1 > g.s2 THEN 1 ELSE 0),
         acc[3] + (IF g.s2 > g.s1 \/ g.s1 > g.s2 THEN 0 ELSE 1),
         acc[4] + g.s2,
         acc[5] + g.s1,
         acc[6] + 1>>

RECURSIVE head_to_head_loop(_, _, _, _)
head_to_head_loop(acc, gs, a, b) ==
  IF gs = <<>> THEN acc
  ELSE head_to_head_loop(head_to_head_count(acc, Head(gs), a, b), Tail(gs), a, b)

head_to_head(gs, team_a, team_b) ==
  head_to_head_loop(<<0, 0, 0, 0, 0, 0>>, gs, team_a, team_b)

\* head_to_head is called on the log of a season: the teams of RosterNames
\* were registered and up to MaxLog games between them were recorded by
\* game(), which takes any two registered names.  reply holds the tuple a
\* call returns.
GameRecords == [p1 : RosterNames, s1 : Scores, p2 : RosterNames, s2 : Scores]

RECURSIVE Logs(_)
Logs(k) ==
  IF k = 0 THEN {<<>>}
  ELSE Logs(k - 1) \cup {Append(l, g) : l \in {x \in Logs(k - 1) : Len(x) = k - 1}, g \in GameRecords}

InitHeadToHead ==
  \E log \in Logs(MaxLog) :
    LET order == restrict(NameList, RosterNames)
    IN /\ season = 1
       /\ playoff_mode = FALSE
       /\ players = play_all([i \in 1..Len(order) |-> new_player(order[i])], log)
       /\ games = log
       /\ playoffs = [bracket |-> None, results |-> <<>>]
       /\ reply = "ready"
       /\ tasks = <<>>

call_head_to_head(team_a, team_b) ==
  /\ reply' = head_to_head(games, team_a, team_b)
  /\ UNCHANGED <<doc, tasks>>

NextHeadToHead == \E team_a \in RosterNames, team_b \in RosterNames : call_head_to_head(team_a, team_b)

SpecHeadToHead == InitHeadToHead /\ [][NextHeadToHead]_vars

(***************************************************************************)
(* Properties of head_to_head                                              *)
(***************************************************************************)
\* The games of the log between a and b, in either order.
meetings(a, b) == {i \in 1..Len(games) : {games[i].p1, games[i].p2} = {a, b}}

\* Exchanging the two teams exchanges the wins and the points; played is
\* the number of the meetings and the sum of wins and ties.
exchanged(a, b) ==
  LET r == head_to_head(games, a, b)
      q == head_to_head(games, b, a)
  IN /\ q = <<r[2], r[1], r[3], r[5], r[4], r[6]>>
     /\ r[6] = Cardinality(meetings(a, b))
     /\ r[6] = r[1] + r[2] + r[3]

head_to_head_distinct_teams ==
  \A a \in RosterNames, b \in RosterNames : a # b => exchanged(a, b)

(***************************************************************************)
(* Properties of the stored bracket and the team records                   *)
(***************************************************************************)
\* Every identity of the bracket b: byes, play-in pair, round-1 pairs.
identities(b) ==
  {b.byes[i] : i \in 1..Len(b.byes)}
    \cup {b.play_in[i] : i \in 1..Len(b.play_in)}
    \cup {b.round1[i][1] : i \in 1..Len(b.round1)}
    \cup {b.round1[i][2] : i \in 1..Len(b.round1)}

\* The identities of the round-1 pairs of b.
round1_identities(b) ==
  {b.round1[i][1] : i \in 1..Len(b.round1)} \cup {b.round1[i][2] : i \in 1..Len(b.round1)}

\* C14: every identity in the byes, the play-in pair and the round-1 pairs
\* of the bracket playoffmode has built is a team of the ranker output or
\* the placeholder, and "Play-In Winner" is in a round-1 pair only when the
\* bracket has a play-in pair.  (The team records do not change between the
\* start of playoff mode and any later state of the postseason.)
C14_PlaceholderOnlyWithPlayIn ==
  playoffs.bracket # None =>
    /\ \A t \in identities(stored) :
         t = "Play-In Winner" \/ \E i \in 1..Len(players) : get_seeds(players)[i].name = t
    /\ "Play-In Winner" \in round1_identities(stored) => stored.play_in # None

\* C15: in every reachable state a stored bracket is the bracket
\* generate_playoff_bracket builds from the current team records, so the
\* seed map currentplayoff computes from the current records numbers the
\* teams as the bracket has placed them.
C15_StoredBracketIsCurrent ==
  playoffs.bracket # None => stored = generate_playoff_bracket(players)

\* C16: from a state in playoff mode every step leads to a state in playoff
\* mode with the same season, the same game log and the same stored
\* bracket, and every team registered before and after the step has the
\* same wins, losses, points_for and points_against.
C16_PlayoffModeFreezesSeason ==
  [][playoff_mode =>
       /\ playoff_mode'
       /\ season' = season
       /\ games' = games
       /\ playoffs'.bracket = playoffs.bracket
       /\ \A i \in 1..Len(players), j \in 1..Len(players') :
            players'[j].name = players[i].name =>
              /\ players'[j].wins = players[i].wins
              /\ players'[j].losses = players[i].losses
              /\ players'[j].points_for = players[i].points_for
              /\ players'[j].points_against = players[i].points_against]_vars

\* In playoff mode, after a regular season with a game and with a playoff
\* result recorded, a team of the stored bracket was removed, and a command
\* was refused.
C16_Witness ==
  /\ playoff_mode
  /\ playoffs.bracket # None
  /\ games # <<>>
  /\ playoffs.results # <<>>
  /\ \E t \in identities(stored) : t \notin registered(players)
  /\ reply = "error"

\* C17: in every state reachable from the document of a missing file
\* playoff_mode is true exactly when a bracket is stored, and the playoff
\* results are empty unless playoff_mode is true; no run of the game
\* command starts in playoff mode without a bracket, the only state in
\* which handle_playoff_game answers that the bracket is not initialized.
C17_PlayoffModeIffBracket ==
  /\ [](/\ playoff_mode <=> playoffs.bracket # None
        /\ playoffs.results # <<>> => playoff_mode)
  /\ [][~(playoff_mode /\ playoffs.bracket = None /\ game_step)]_vars

\* Playoff mode was started with four teams and the game of the round-1
\* pair was reported and accepted.
C17_Witness ==
  /\ playoff_mode
  /\ playoffs.bracket # None
  /\ Len(stored.round1) = 1
  /\ Len(playoffs.results) = 1
  /\ reply = "ok"

\* C18: in every reachable state every identity of the stored bracket (byes,
\* play-in pair, round-1 pairs) other than the placeholder "Play-In Winner"
\* is a registered team, and currentplayoff has not ended with the KeyError
\* of a seed looked up for a team that is not registered.
C18_BracketTeamsRegistered ==
  /\ playoffs.bracket # None =>
       \A t \in identities(stored) : t # "Play-In Winner" => t \in registered(players)
  /\ reply # "KeyError"

(***************************************************************************)
(* The regular season: the teams of RosterNames were registered and up to  *)
(* MaxLog games were recorded; teams are registered and removed, games are *)
(* recorded and the season is reset.                                       *)
(***************************************************************************)
NextSeason ==
  \/ \E name \in RosterNames : addplayer(name) /\ UNCHANGED tasks
  \/ \E p1 \in RosterNames, p2 \in RosterNames, s1 \in Scores, s2 \in Scores :
       game(p1, s1, p2, s2) /\ UNCHANGED tasks
  \/ \E name \in RosterNames : removeplayer(name) /\ UNCHANGED tasks
  \/ \E admin \in BOOLEAN : resetseason(admin) /\ UNCHANGED tasks

SpecSeason == InitHeadToHead /\ [][NextSeason]_vars

(***************************************************************************)
(* Properties of the team records                                          *)
(***************************************************************************)
\* The sum of one count over the team records ps.
RECURSIVE total(_, _)
total(ps, field) == IF ps = <<>> THEN 0 ELSE Head(ps)[field] + total(Tail(ps), field)

\* The count of the team name in the records ps.
count_of(ps, name, field) ==
  LET i == CHOOSE k \in 1..Len(ps) : ps[k].name = name IN ps[i][field]

\* C19: in every state reached by addplayer, game, removeplayer and
\* resetseason the wins of all teams and the losses of all teams both add
\* up to the number of game records, and the points_for of all teams add up
\* to the points_against of all teams; a step that appends a game record
\* (p1, s1, p2, s2) adds one win and one loss in all, the win to p1 when
\* s1 > s2 and to p2 otherwise, the loss to the other of p1 and p2.
C19_WinsLossesBalance ==
  /\ [](/\ total(players, "wins") = Len(games)
        /\ total(players, "losses") = Len(games)
        /\ total(players, "points_for") = total(players, "points_against"))
  /\ [][Len(games') = Len(games) + 1 =>
          LET g == games'[Len(games')]
              winner == IF g.s1 > g.s2 THEN g.p1 ELSE g.p2
              loser == IF g.s1 > g.s2 THEN g.p2 ELSE g.p1
          IN /\ total(players', "wins") = total(players, "wins") + 1
             /\ total(players', "losses") = total(players, "losses") + 1
             /\ count_of(players', winner, "wins") = count_of(players, winner, "wins") + 1
             /\ count_of(players', loser, "losses") = count_of(players, loser, "losses") + 1]_vars

\* After a reset, a game of a team against itself with equal scores was
\* recorded.
C19_Witness ==
  /\ season = 2
  /\ reply = "ok"
  /\ Len(games) = 1
  /\ games[1].p1 = games[1].p2
  /\ games[1].s1 = games[1].s2
  /\ \E i \in 1..Len(players) : players[i].wins = 1 /\ players[i].losses = 1

(***************************************************************************)
(* The handlers as coroutines.  discord.py starts one coroutine for every  *)
(* command message; the event loop runs a coroutine until it suspends at   *)
(* an await and then runs another one.  In every handler the only awaits   *)
(* that suspend are those of ctx.send, and each of them stands after       *)
(* save_data or in a branch that returns without saving ('await            *)
(* handle_playoff_game(...)' in game() runs the callee at once, without a  *)
(* switch).  A handler therefore runs in two pieces: from its start to its *)
(* ctx.send, and from there to its return.  Every handler is written here  *)
(* as a function of the document it has loaded: whether it saves, the      *)
(* document it saves, and the kind of its reply.                           *)
(***************************************************************************)
\* load_data(): the document of the file.
load_data ==
  [season |-> season, playoff_mode |-> playoff_mode, players |-> players,
   games |-> games, playoffs |-> playoffs]

\* save_data(data): the file is written as a whole.
save_data(data) ==
  /\ season' = data.season
  /\ playoff_mode' = data.playoff_mode
  /\ players' = data.players
  /\ games' = data.games
  /\ playoffs' = data.playoffs

\* The handler returns after an error message, or ends with an exception,
\* without save_data.
not_saved(data, kind) == [save |-> FALSE, data |-> data, reply |-> kind]
\* The handler calls save_data(data) and sends its message.
saved(data) == [save |-> TRUE, data |-> data, reply |-> "ok"]

addplayer_on(data, name) ==
  IF name \in registered(data.players)
  THEN not_saved(data, "error")
  ELSE saved([data EXCEPT !.players = Append(@, new_player(name))])

handle_playoff_game_on(data, p1, s1, p2, s2) ==
  IF data.playoffs.bracket = None
  THEN not_saved(data, "error")
  ELSE IF ~valid_matchup(data.playoffs.bracket[1], p1, p2)
  THEN not_saved(data, "error")
  ELSE saved([data EXCEPT !.playoffs.results =
                Append(@, [p1 |-> p1, s1 |-> s1, p2 |-> p2, s2 |-> s2,
                           winner |-> playoff_winner(p1, s1, p2, s2)])])

game_on(data, p1, s1, p2, s2) ==
  IF data.playoff_mode
  THEN handle_playoff_game_on(data, p1, s1, p2, s2)
  ELSE IF p1 \notin registered(data.players) \/ p2 \notin registered(data.players)
  THEN not_saved(data, "error")
  ELSE saved([data EXCEPT
                !.players = record_game(@, p1, s1, p2, s2),
                !.games = Append(@, [p1 |-> p1, s1 |-> s1, p2 |-> p2, s2 |-> s2])])

resetseason_on(data, admin) ==
  IF ~admin
  THEN not_saved(data, "error")
  ELSE IF data.playoff_mode
  THEN not_saved(data, "error")
  ELSE saved([data EXCEPT
                !.players = [i \in 1..Len(@) |-> new_player(@[i].name)],
                !.games = <<>>,
                !.season = @ + 1])

playoffmode_on(data, admin) ==
  IF ~admin
  THEN not_saved(data, "error")
  ELSE IF data.playoff_mode
  THEN not_saved(data, "error")
  ELSE IF generate_playoff_bracket(data.players) = IndexError
  THEN not_saved(data, "IndexError")
  ELSE saved([data EXCEPT
                !.playoff_mode = TRUE,
                !.playoffs = [bracket |-> Some(generate_playoff_bracket(data.players)),
                              results |-> <<>>]])

removeplayer_on(data, name) ==
  IF name \notin registered(data.players)
  THEN not_saved(data, "error")
  ELSE IF has_stats(data.players[index_of(data.players, name)])
  THEN not_saved(data, "error")
  ELSE IF in_history(data.games, name)
  THEN not_saved(data, "error")
  ELSE saved([data EXCEPT !.players = del_player(@, name)])

\* A command message: the command and its arguments.
Command(command, args) == [command |-> command, args |-> args]

\* The handler of the command cmd on the loaded document data.
handler(cmd, data) ==
  CASE cmd.command = "addplayer" -> addplayer_on(data, cmd.args[1])
    [] cmd.command = "game" ->
         game_on(data, cmd.args[1], cmd.args[2], cmd.args[3], cmd.args[4])
    [] cmd.command = "resetseason" -> resetseason_on(data, cmd.args[1])
    [] cmd.command = "playoffmode" -> playoffmode_on(data, cmd.args[1])
    [] cmd.command = "removeplayer" -> removeplayer_on(data, cmd.args[1])

\* The league the commands arrive at: the teams of Names are registered in
\* the order of NameList and no game has been recorded.
StartData ==
  LET order == restrict(NameList, Names)
  IN [season |-> 1, playoff_mode |-> FALSE,
      players |-> [i \in 1..Len(order) |-> new_player(order[i])],
      games |-> <<>>,
      playoffs |-> [bracket |-> None, results |-> <<>>]]

\* The commands that arrive: reports of a game of the round-1 pair and of a
\* game of a bye team, the start of the playoffs, a reset, and the removal
\* and the registration of a bye team.
Commands ==
  {Command("game", <<"b", MaxScore, "Play-In Winner", 0>>),
   Command("game", <<"a", 0, "b", 0>>),
   Command("playoffmode", <<TRUE>>),
   Command("resetseason", <<TRUE>>),
   Command("removeplayer", <<"a">>),
   Command("addplayer", <<"a">>)}

Tasks == 1..MaxTasks

InitTasks ==
  /\ season = StartData.season
  /\ playoff_mode = StartData.playoff_mode
  /\ players = StartData.players
  /\ games = StartData.games
  /\ playoffs = StartData.playoffs
  /\ reply = "ready"
  /\ tasks \in [Tasks -> [cmd : Commands, pc : {"pending"}, reply : {"ready"}]]

\* Mutant: the handler suspends after load_data and saves the document it
\* has computed from its copy when it runs again.
handler_runs_suspending(t) ==
  \/ /\ tasks[t].pc = "pending"
     /\ tasks' = [tasks EXCEPT ![t] =
          [cmd |-> tasks[t].cmd, pc |-> "loaded", reply |-> "ready", data |-> load_data]]
     /\ UNCHANGED <<doc, reply>>
  \/ /\ tasks[t].pc = "loaded"
     /\ LET r == handler(tasks[t].cmd, tasks[t].data)
        IN /\ IF r.save THEN save_data(r.data) ELSE UNCHANGED doc
           /\ reply' = r.reply
           /\ tasks' = [tasks EXCEPT ![t] =
                [cmd |-> tasks[t].cmd,
                 pc |-> IF r.reply \in ExceptionReplies THEN "done" ELSE "sending",
                 reply |-> r.reply]]

\* The handler runs from its start to the await of its ctx.send: load_data,
\* the tests, and save_data when the command is accepted.  A handler that
\* ends with an exception sends nothing and is done.
handler_runs(t) ==
  /\ tasks[t].pc = "pending"
  /\ LET r == handler(tasks[t].cmd, load_data)
     IN /\ IF r.save THEN save_data(r.data) ELSE UNCHANGED doc
        /\ reply' = r.reply
        /\ tasks' = [tasks EXCEPT ![t] =
             [cmd |-> tasks[t].cmd,
              pc |-> IF r.reply \in ExceptionReplies THEN "done" ELSE "sending",
              reply |-> r.reply]]

\* ctx.send has completed: the handler runs on to its return.
handler_returns(t) ==
  /\ tasks[t].pc = "sending"
  /\ tasks' = [tasks EXCEPT ![t].pc = "done"]
  /\ UNCHANGED <<doc, reply>>

NextTasks ==
  \/ \E t \in Tasks : handler_runs(t)
  \/ \E t \in Tasks : handler_returns(t)

SpecTasks == InitTasks /\ [][NextTasks]_vars

(***************************************************************************)
(* Properties of the interleaved handlers                                  *)
(***************************************************************************)
\* The orders in which the commands of the set S can be run one by one.
Orders(S) ==
  {o \in [1..Cardinality(S) -> S] : \A i, j \in 1..Cardinality(S) : o[i] = o[j] => i = j}

\* The document after the first k commands of the order o, each run to its
\* end before the next one starts, from StartData.
RECURSIVE serial(_, _)
serial(o, k) ==
  IF k = 0 THEN StartData
  ELSE LET r == handler(tasks[o[k]].cmd, serial(o, k - 1))
       IN IF r.save THEN r.data ELSE serial(o, k - 1)

\* The reply the k-th command of the order o gets in that serial run.
serial_reply(o, k) == handler(tasks[o[k]].cmd, serial(o, k - 1)).reply

\* The commands whose handler has run up to its ctx.send or its end.
answered == {t \in Tasks : tasks[t].pc \in {"sending", "done"}}

\* C20: whatever the event loop has interleaved, there is an order of the
\* answered commands such that the document of the file is the document
\* of running them one by one in that order, and every command has the
\* reply it gets in that serial run: no accepted command is missing from
\* the document.
C20_InterleavingIsSerial ==
  \E o \in Orders(answered) :
    /\ load_data = serial(o, Cardinality(answered))
    /\ \A k \in 1..Cardinality(answered) : tasks[o[k]].reply = serial_reply(o, k)

\* Two game reports were accepted while both handlers were suspended at
\* their ctx.send, and the log holds both.
C20_Witness ==
  \E t1 \in Tasks, t2 \in Tasks :
    /\ t1 # t2
    /\ tasks[t1].pc = "sending" /\ tasks[t1].reply = "ok"
    /\ tasks[t2].pc = "sending" /\ tasks[t2].reply = "ok"
    /\ tasks[t1].cmd.command = "game"
    /\ tasks[t2].cmd.command = "game"
    /\ Len(games) = 2

====
